---- MODULE Spec2Model ----
(***************************************************************************)
(* Model of app.py of the underground KPI dashboard: the module-level      *)
(* load of the sheet into df (lines 6-27), the layout defaults (lines      *)
(* 38-54) and the callback update_dashboard (lines 68-186).                *)
(*                                                                         *)
(* Text is modelled as a sequence of one-character strings so that         *)
(* strftime and the lexicographic order of labels are computed, not        *)
(* assumed.  A date is <<year, month, day>>.  A mean is the exact fraction *)
(* [num, den]; den = 0 stands for a missing value (NaN).                   *)
(***************************************************************************)
EXTENDS Integers, Sequences, FiniteSets, TLC

VARIABLES raw, pc, df, month_year_options, selected_months,
          selected_materials, result

vars == <<raw, pc, df, month_year_options, selected_months,
          selected_materials, result>>

(* ---------------- bounds of the explored inputs ---------------- *)
MaxRun == 32
MaxExtra == 2

(* ---------------- program constants ---------------- *)
window == 30

material_options == <<"Ore", "Waste">>

month_map ==
  [n \in {"Jan", "Feb", "Mar", "Apr", "May", "Jun",
          "Jul", "Aug", "Sep", "Oct", "Nov", "Dec"} |->
     CASE n = "Jan" -> 1 [] n = "Feb" -> 2 [] n = "Mar" -> 3
       [] n = "Apr" -> 4 [] n = "May" -> 5 [] n = "Jun" -> 6
       [] n = "Jul" -> 7 [] n = "Aug" -> 8 [] n = "Sep" -> 9
       [] n = "Oct" -> 10 [] n = "Nov" -> 11 [] n = "Dec" -> 12]

(* missing values of pandas: NaN month number, NaT date, NaN label *)
NaN == 0 - 1
NaT == <<0, 0, 0>>
NaNLabel == <<>>
NoValue == [num |-> 0, den |-> 0]

(* a NaN in the layout is serialised as null, so the dropdown sends None *)
None == <<"None">>
JsonValue(v) == IF v = NaNLabel THEN None ELSE v

(* ---------------- text ---------------- *)
(* the characters a label can hold, in ASCII order *)
Chars == <<" ", "0", "1", "2", "3", "4", "5", "6", "7", "8", "9",
           "A", "D", "F", "J", "M", "N", "O", "S",
           "a", "b", "c", "e", "g", "l", "n", "o", "p", "r", "t", "u",
           "v", "y">>

Ord(c) == CHOOSE i \in 1..Len(Chars) : Chars[i] = c

RECURSIVE StrLess(_, _)
StrLess(a, b) ==
  IF b = <<>> THEN FALSE
  ELSE IF a = <<>> THEN TRUE
  ELSE IF Ord(Head(a)) # Ord(Head(b)) THEN Ord(Head(a)) < Ord(Head(b))
  ELSE StrLess(Tail(a), Tail(b))

(* %b of strftime in the C locale *)
AbbrName ==
  << <<"J","a","n">>, <<"F","e","b">>, <<"M","a","r">>, <<"A","p","r">>,
     <<"M","a","y">>, <<"J","u","n">>, <<"J","u","l">>, <<"A","u","g">>,
     <<"S","e","p">>, <<"O","c","t">>, <<"N","o","v">>, <<"D","e","c">> >>

Digit(d) == Chars[d + 2]

RECURSIVE Digits(_)
Digits(n) == IF n < 10 THEN <<Digit(n)>>
             ELSE Digits(n \div 10) \o <<Digit(n % 10)>>

(* Series.dt.strftime("%b %Y"); NaT formats to NaN *)
strftime(date) ==
  IF date = NaT THEN NaNLabel
  ELSE AbbrName[date[2]] \o <<" ">> \o Digits(date[1])

(* ---------------- dates ---------------- *)
IsLeap(y) == (y % 4 = 0 /\ y % 100 # 0) \/ y % 400 = 0

DaysIn(y, m) ==
  IF m = 2 THEN (IF IsLeap(y) THEN 29 ELSE 28)
  ELSE IF m \in {4, 6, 9, 11} THEN 30 ELSE 31

DateLess(a, b) ==
  \/ a[1] < b[1]
  \/ a[1] = b[1] /\ a[2] < b[2]
  \/ a[1] = b[1] /\ a[2] = b[2] /\ a[3] < b[3]

(* ---------------- load (lines 14-27) ---------------- *)
(* Series.map(dict): a key the dict lacks maps to NaN *)
MapMonth(name) == IF name \in DOMAIN month_map THEN month_map[name] ELSE NaN

(* pd.to_datetime of the Year/Month/Day columns raises on an impossible *)
(* date; a row with a NaN component becomes NaT                          *)
DateRaises(r) ==
  LET m == MapMonth(r.Month)
  IN  m # NaN /\ ~(r.Day \in 1..DaysIn(r.Year, m))

to_datetime(r) ==
  LET m == MapMonth(r.Month)
  IN  IF m = NaN THEN NaT ELSE <<r.Year, m, r.Day>>

(* values.astype("datetime64[M]"): truncation to the first of the month *)
MonthStartOf(date) == IF date = NaT THEN NaT ELSE <<date[1], date[2], 1>>

Normalize(r) ==
  LET date == to_datetime(r)
  IN  [Year |-> r.Year, Month |-> MapMonth(r.Month), Day |-> r.Day,
       THT |-> r.THT, Ore |-> r.Ore, Waste |-> r.Waste, Adv |-> r.Adv,
       Date |-> date, MonthStart |-> MonthStartOf(date),
       MonthYear |-> strftime(date)]

LoadDf(rows) == [i \in 1..Len(rows) |-> Normalize(rows[i])]

(* drop_duplicates keeps the first occurrence of every pair *)
RECURSIVE drop_duplicates(_)
drop_duplicates(s) ==
  IF s = <<>> THEN <<>>
  ELSE LET init == drop_duplicates(SubSeq(s, 1, Len(s) - 1))
           x == s[Len(s)]
       IN  IF \E i \in 1..Len(init) : init[i] = x THEN init
           ELSE Append(init, x)

(* variant: the pairs sorted by the label's text *)
MonthYearBefore(a, b) == StrLess(a.MonthYear, b.MonthYear)

(* sort_values("MonthStart"): ascending, NaT last *)
MonthStartBefore(a, b) ==
  /\ a.MonthStart # NaT
  /\ b.MonthStart = NaT \/ DateLess(a.MonthStart, b.MonthStart)

month_lookup(d) ==
  SortSeq(drop_duplicates([i \in 1..Len(d) |->
            [MonthYear |-> d[i].MonthYear, MonthStart |-> d[i].MonthStart]]),
          MonthStartBefore)

MonthYearOptions(d) ==
  LET ml == month_lookup(d) IN [i \in 1..Len(ml) |-> ml[i].MonthYear]

(* ---------------- generic helpers ---------------- *)
RECURSIVE SetToSeq(_)
SetToSeq(S) ==
  IF S = {} THEN <<>>
  ELSE LET x == CHOOSE y \in S : TRUE IN <<x>> \o SetToSeq(S \ {x})

RECURSIVE SumTo(_, _, _)
(* sum of column col over the first n rows of s *)
SumTo(s, col, n) == IF n = 0 THEN 0 ELSE SumTo(s, col, n - 1) + s[n][col]

SumCol(s, col) == SumTo(s, col, Len(s))

Rows(s, key, val) == SelectSeq(s, LAMBDA r : r[key] = val)

(* ---------------- update_dashboard (lines 68-101) ---------------- *)
(* Series.isin(selected_months): a set-membership test *)
isin(label, months) == label \in months

(* variant: an empty selection read as "every month" *)
Filter_all_when_empty(d, months) ==
  IF months = {} THEN d ELSE SelectSeq(d, LAMBDA r : isin(r.MonthYear, months))

(* line 69 *)
Filter(d, months) == SelectSeq(d, LAMBDA r : isin(r.MonthYear, months))

(* lines 75-76: a copy with the MonthLabel column *)
Grouped(f) ==
  [i \in 1..Len(f) |->
     [Date |-> f[i].Date, MonthLabel |-> strftime(f[i].Date),
      THT |-> f[i].THT, Ore |-> f[i].Ore, Waste |-> f[i].Waste,
      Adv |-> f[i].Adv]]

(* variant: the keys compared by label first *)
KeyLess_label_first(a, b) ==
  \/ StrLess(a[2], b[2])
  \/ a[2] = b[2] /\ DateLess(a[1], b[1])

(* groupby(["Date", "MonthLabel"]): the distinct keys in ascending order, *)
(* rows with a missing key dropped                                        *)
KeyLess(a, b) ==
  \/ DateLess(a[1], b[1])
  \/ a[1] = b[1] /\ StrLess(a[2], b[2])

GroupKeys(g) ==
  SortSeq(SetToSeq({<<g[i].Date, g[i].MonthLabel>> : i \in
                     {j \in 1..Len(g) : g[j].Date # NaT
                                        /\ g[j].MonthLabel # NaNLabel}}),
          KeyLess)

KeyRows(g, k) ==
  SelectSeq(g, LAMBDA r : r.Date = k[1] /\ r.MonthLabel = k[2])

(* variant: .first() in place of .sum() *)
grouped_daily_first(g) ==
  LET keys == GroupKeys(g)
  IN  [i \in 1..Len(keys) |->
         LET rs == KeyRows(g, keys[i])
         IN  [Date |-> keys[i][1], MonthLabel |-> keys[i][2],
              THT |-> rs[1].THT, Ore |-> rs[1].Ore,
              Waste |-> rs[1].Waste, Adv |-> rs[1].Adv]]

(* line 77: .sum(numeric_only=True).reset_index() *)
grouped_daily(g) ==
  LET keys == GroupKeys(g)
  IN  [i \in 1..Len(keys) |->
         LET rs == KeyRows(g, keys[i])
         IN  [Date |-> keys[i][1], MonthLabel |-> keys[i][2],
              THT |-> SumCol(rs, "THT"), Ore |-> SumCol(rs, "Ore"),
              Waste |-> SumCol(rs, "Waste"), Adv |-> SumCol(rs, "Adv")]]

(* variant: no grouping by date, one row per record *)
daily_totals_per_row(g) ==
  [i \in 1..Len(g) |->
     [Date |-> g[i].Date, MonthLabel |-> g[i].MonthLabel, Adv |-> g[i].Adv]]

(* line 80 *)
daily_totals(g) ==
  LET keys == GroupKeys(g)
  IN  [i \in 1..Len(keys) |->
         [Date |-> keys[i][1], MonthLabel |-> keys[i][2],
          Adv |-> SumCol(KeyRows(g, keys[i]), "Adv")]]

(* line 81: groupby("MonthLabel") sorts its keys, which are text *)
LabelKeys(dt) ==
  SortSeq(SetToSeq({dt[i].MonthLabel : i \in 1..Len(dt)}), StrLess)

Mean(rs, col) == [num |-> SumCol(rs, col), den |-> Len(rs)]

monthly_avg(dt) ==
  LET keys == LabelKeys(dt)
  IN  [i \in 1..Len(keys) |->
         [MonthLabel |-> keys[i],
          Adv |-> Mean(Rows(dt, "MonthLabel", keys[i]), "Adv")]]

(* variant: min_periods = 1 *)
RollingMean_min_periods_1(s, i) ==
  IF i < window THEN [num |-> SumTo(s, "Adv", i), den |-> i]
  ELSE [num |-> SumTo(s, "Adv", i) - SumTo(s, "Adv", i - window),
        den |-> window]

(* lines 84-85: rolling(window=30).mean(), min_periods = window *)
RollingMean(s, i) ==
  IF i < window THEN NoValue
  ELSE [num |-> SumTo(s, "Adv", i) - SumTo(s, "Adv", i - window),
        den |-> window]

rolling(gd) ==
  [i \in 1..Len(gd) |->
     [Date |-> gd[i].Date, Adv |-> gd[i].Adv, Avg |-> RollingMean(gd, i)]]

(* lines 88-101 *)
total_ore(g, materials) ==
  IF "Ore" \in materials THEN SumCol(g, "Ore") ELSE 0

total_waste(g, materials) ==
  IF "Waste" \in materials THEN SumCol(g, "Waste") ELSE 0

(* variant: the raw "Total Hauled Tonnes" column *)
total_haul_raw(g, materials) == SumCol(g, "THT")

total_haul(g, materials) == total_ore(g, materials) + total_waste(g, materials)

total_advance(g) == SumCol(g, "Adv")

NoData == [kind |-> "nodata"]
NoResult == [kind |-> "none"]

update_dashboard(d, months, materials) ==
  LET filtered == Filter(d, months)
      grouped == Grouped(filtered)
      gd == grouped_daily(grouped)
  IN  IF filtered = <<>> THEN NoData
      ELSE [kind |-> "kpis",
            total_haul |-> total_haul(grouped, materials),
            total_ore |-> total_ore(grouped, materials),
            total_waste |-> total_waste(grouped, materials),
            total_advance |-> total_advance(grouped),
            grouped_daily |-> gd,
            monthly_avg |-> monthly_avg(daily_totals(grouped)),
            rolling |-> rolling(gd)]

(* variant: the filter applied to df itself *)
df_filtered_in_place(d, months) == Filter(d, months)

(* the global df once a call has returned: the call works on filtered and *)
(* on grouped = filtered.copy(), never on df                              *)
df_after_update(d, months) == d

(* ---------------- the sheets explored ---------------- *)
Row(y, m, d, tht, ore, waste, adv) ==
  [Year |-> y, Month |-> m, Day |-> d, THT |-> tht, Ore |-> ore,
   Waste |-> waste, Adv |-> adv]

(* k-th row of a run of consecutive days that starts on 1 Dec 2023 *)
RunRow(k) ==
  LET ore == k % 3
      waste == (k % 2) + 1
      adv == (k % 4) + 1
  IN  IF k <= 31 THEN Row(2023, "Dec", k, ore + waste, ore, waste, adv)
      ELSE Row(2024, "Jan", k - 31, ore + waste, ore, waste, adv)

Run(n) == [k \in 1..n |-> RunRow(k)]

RunLens == {0, 1, 2, window - 1, window, MaxRun}

RowPool ==
  { Row(2024, "Jan", 1, 5, 2, 3, 10),
    Row(2024, "Jan", 2, 4, 3, 1, 20),
    Row(2024, "Apr", 2, 9, 4, 1, 30),
    Row(2023, "Dec", 5, 3, 1, 2, 7),
    Row(2024, "Foo", 3, 6, 2, 4, 9),
    Row(2024, "Feb", 30, 2, 1, 1, 5) }

Extras(n) == UNION {[1..e -> RowPool] : e \in 0..n}

Sheets == {Run(n) \o x : n \in RunLens, x \in Extras(MaxExtra)}

(* a label no sheet above produces: 30 Feb is no date *)
AbsentLabel == strftime(<<2024, 2, 1>>)

(* ---------------- the program ---------------- *)
Init ==
  /\ raw \in Sheets
  /\ pc = "load"
  /\ df = <<>>
  /\ month_year_options = <<>>
  /\ selected_months = {}
  /\ selected_materials = {}
  /\ result = NoResult

(* the module body raises: to_datetime on an impossible date (line 20), *)
(* or month_year_options[-1] on an empty sheet (line 41)                *)
LoadRaises ==
  \/ \E i \in 1..Len(raw) : DateRaises(raw[i])
  \/ raw = <<>>

LoadAbort ==
  /\ pc = "load"
  /\ LoadRaises
  /\ pc' = "aborted"
  /\ UNCHANGED <<raw, df, month_year_options, selected_months,
                 selected_materials, result>>

(* lines 7-59: df, the dropdown options and the dropdowns' defaults *)
Load ==
  /\ pc = "load"
  /\ ~LoadRaises
  /\ df' = LoadDf(raw)
  /\ month_year_options' = MonthYearOptions(df')
  /\ selected_months' = {JsonValue(month_year_options'[Len(month_year_options')])}
  /\ selected_materials' = {material_options[i] : i \in 1..Len(material_options)}
  /\ pc' = "ready"
  /\ UNCHANGED <<raw, result>>

(* the callback as Dash fires it when the page is first served *)
InitialCall ==
  /\ pc = "ready"
  /\ result' = update_dashboard(df, selected_months, selected_materials)
  /\ df' = df_after_update(df, selected_months)
  /\ pc' = "serving"
  /\ UNCHANGED <<raw, month_year_options, selected_months, selected_materials>>

(* what the month dropdown can send: its options, and a label the *)
(* catalog lacks from a caller that is not the dropdown            *)
MonthChoices ==
  ({month_year_options[i] : i \in 1..Len(month_year_options)} \ {NaNLabel})
    \cup {AbsentLabel}

Toggle(S, x) == IF x \in S THEN S \ {x} ELSE S \cup {x}

(* the user adds or removes a month; the callback runs *)
ChangeMonths ==
  /\ pc = "serving"
  /\ \E m \in MonthChoices :
       /\ selected_months' = Toggle(selected_months, m)
       /\ result' = update_dashboard(df, selected_months', selected_materials)
       /\ df' = df_after_update(df, selected_months')
  /\ UNCHANGED <<raw, pc, month_year_options, selected_materials>>

(* the user adds or removes a material; the callback runs *)
ChangeMaterials ==
  /\ pc = "serving"
  /\ \E x \in {"Ore", "Waste"} :
       /\ selected_materials' = Toggle(selected_materials, x)
       /\ result' = update_dashboard(df, selected_months, selected_materials')
       /\ df' = df_after_update(df, selected_months)
  /\ UNCHANGED <<raw, pc, month_year_options, selected_months>>

Next == LoadAbort \/ Load \/ InitialCall \/ ChangeMonths \/ ChangeMaterials

Spec == Init /\ [][Next]_vars

(* ---------------- vocabulary of the properties ---------------- *)
Served == pc = "serving"
HasKpis == Served /\ result.kind = "kpis"

(* the records of df whose label is among the selected months *)
Matching == {i \in 1..Len(df) : df[i].MonthYear \in selected_months}

RECURSIVE SumOver(_, _)
(* sum of column col of df over the set I of record numbers *)
SumOver(I, col) ==
  IF I = {} THEN 0
  ELSE LET i == CHOOSE j \in I : TRUE IN df[i][col] + SumOver(I \ {i}, col)

RECURSIVE SeqSum(_, _)
SeqSum(s, col) ==
  IF s = <<>> THEN 0 ELSE s[1][col] + SeqSum(Tail(s), col)

InvalidMonthRow == \E i \in 1..Len(raw) : raw[i].Month \notin DOMAIN month_map

(* C1: on a non-empty filtered set, total_ore and total_waste are the sums *)
(* of their columns over the filtered records when the material is         *)
(* selected and 0 otherwise, total_haul is their sum, and total_advance is *)
(* the sum of the advance column whatever the materials are.               *)
C1_KpiTotals ==
  HasKpis =>
    /\ result.total_ore =
         (IF "Ore" \in selected_materials THEN SumOver(Matching, "Ore") ELSE 0)
    /\ result.total_waste =
         (IF "Waste" \in selected_materials THEN SumOver(Matching, "Waste")
          ELSE 0)
    /\ result.total_haul = result.total_ore + result.total_waste
    /\ result.total_advance = SumOver(Matching, "Adv")

(* only Ore selected, on records whose raw total differs from their ore *)
C1_Witness ==
  /\ HasKpis
  /\ selected_materials = {"Ore"}
  /\ SumOver(Matching, "Waste") > 0
  /\ SumOver(Matching, "THT") # SumOver(Matching, "Ore") + SumOver(Matching, "Waste")
  /\ result.total_haul = SumOver(Matching, "Ore")

(* C2: the callback answers "no data" exactly when no record of df has    *)
(* its label among the selected months, whatever the materials; otherwise *)
(* it answers with KPIs and series.                                       *)
C2_NoDataIffNoMatch ==
  Served =>
    /\ result = NoData <=> Matching = {}
    /\ result # NoData => result.kind = "kpis"

(* a selection made only of a label the catalog lacks, no material *)
C2_Witness ==
  /\ Served
  /\ selected_months = {AbsentLabel}
  /\ selected_materials = {}
  /\ result = NoData

(* C3 (as claimed): a sheet with an unrecognised month name never loads: *)
(* no df, no options, no result.                                         *)
C3_InvalidMonthAborts ==
  InvalidMonthRow =>
    /\ pc \in {"load", "aborted"}
    /\ df = <<>>
    /\ month_year_options = <<>>
    /\ result = NoResult

(* C4 (as claimed): for every material selection, each of the four *)
(* measures summed over the daily series equals its KPI.            *)
C4_DailySumsEqualKpis ==
  HasKpis =>
    /\ SeqSum(result.grouped_daily, "THT") = result.total_haul
    /\ SeqSum(result.grouped_daily, "Ore") = result.total_ore
    /\ SeqSum(result.grouped_daily, "Waste") = result.total_waste
    /\ SeqSum(result.grouped_daily, "Adv") = result.total_advance

(* C4 (amended): the advance column summed over the daily series equals   *)
(* total_advance for every material selection; the ore (waste) column     *)
(* equals total_ore (total_waste) when Ore (Waste) is selected; the hauled *)
(* column equals the raw hauled column summed over the filtered records,  *)
(* hence total_haul when both materials are selected and every filtered   *)
(* record's hauled tonnes are its ore plus its waste tonnes.              *)
C4_DailySumsAmended ==
  HasKpis =>
    /\ SeqSum(result.grouped_daily, "Adv") = result.total_advance
    /\ "Ore" \in selected_materials =>
         SeqSum(result.grouped_daily, "Ore") = result.total_ore
    /\ "Waste" \in selected_materials =>
         SeqSum(result.grouped_daily, "Waste") = result.total_waste
    /\ SeqSum(result.grouped_daily, "THT") = SumOver(Matching, "THT")
    /\ ( /\ selected_materials = {"Ore", "Waste"}
         /\ \A i \in Matching : df[i].THT = df[i].Ore + df[i].Waste )
       => SeqSum(result.grouped_daily, "THT") = result.total_haul

(* both materials selected, several records on one day, consistent rows *)
C4_Witness ==
  /\ HasKpis
  /\ selected_materials = {"Ore", "Waste"}
  /\ Len(result.grouped_daily) < Cardinality(Matching)
  /\ Len(result.grouped_daily) > 1
  /\ \A i \in Matching : df[i].THT = df[i].Ore + df[i].Waste
  /\ SeqSum(result.grouped_daily, "THT") = result.total_haul
  /\ result.total_haul > 0

(* the month bucket of a label of df *)
BucketOf(label) ==
  df[CHOOSE i \in 1..Len(df) : df[i].MonthYear = label].MonthStart

DfLabels == {df[i].MonthYear : i \in 1..Len(df)} \ {NaNLabel}

(* C5: month_year_options holds every month label of df exactly once, in *)
(* ascending order of the month bucket, and two records have the same    *)
(* label exactly when they have the same bucket.                         *)
C5_CatalogChronological ==
  pc \in {"ready", "serving"} =>
    /\ \A l \in DfLabels :
         Cardinality({j \in 1..Len(month_year_options) :
                        month_year_options[j] = l}) = 1
    /\ \A j \in 1..Len(month_year_options) :
         month_year_options[j] \in DfLabels \cup {NaNLabel}
    /\ \A i, j \in 1..Len(month_year_options) :
         ( /\ i < j
           /\ month_year_options[i] # NaNLabel
           /\ month_year_options[j] # NaNLabel )
         => DateLess(BucketOf(month_year_options[i]),
                     BucketOf(month_year_options[j]))
    /\ \A i, j \in 1..Len(df) :
         df[i].MonthYear = df[j].MonthYear <=> df[i].MonthStart = df[j].MonthStart

(* a year boundary, and an order that the text order would reverse *)
C5_Witness ==
  /\ pc = "ready"
  /\ month_year_options =
       <<strftime(<<2023, 12, 1>>), strftime(<<2024, 1, 1>>),
         strftime(<<2024, 4, 1>>)>>
  /\ StrLess(strftime(<<2024, 4, 1>>), strftime(<<2023, 12, 1>>))
  /\ \E i, j \in 1..Len(df) : i < j /\ DateLess(df[j].MonthStart, df[i].MonthStart)

(* labels and dates of the filtered records *)
MatchingLabels == {df[i].MonthYear : i \in Matching}
MatchingDates == {df[i].Date : i \in Matching}
OfLabel(l) == {i \in Matching : df[i].MonthYear = l}
OfDate(d) == {i \in Matching : df[i].Date = d}

(* C6: monthly_avg has one entry per label of the filtered set, and its  *)
(* mean times the number of distinct dates of that label in the filtered *)
(* set is the advance summed over the filtered records of that label.    *)
C6_MonthlyAverage ==
  HasKpis =>
    /\ Len(result.monthly_avg) = Cardinality(MatchingLabels)
    /\ \A l \in MatchingLabels :
         \E j \in 1..Len(result.monthly_avg) :
           result.monthly_avg[j].MonthLabel = l
    /\ \A j \in 1..Len(result.monthly_avg) :
         LET e == result.monthly_avg[j]
             days == Cardinality({df[i].Date : i \in OfLabel(e.MonthLabel)})
         IN  /\ e.Adv.den > 0
             /\ e.Adv.num * days = SumOver(OfLabel(e.MonthLabel), "Adv") * e.Adv.den

(* a label with more records than days *)
C6_Witness ==
  /\ HasKpis
  /\ \E l \in MatchingLabels :
       /\ Cardinality({df[i].Date : i \in OfLabel(l)}) > 1
       /\ Cardinality({df[i].Date : i \in OfLabel(l)}) < Cardinality(OfLabel(l))
  /\ Cardinality(MatchingLabels) > 1

(* C7: rolling has the length and the dates of the daily series; an entry *)
(* before position 30 has no average, an entry from position 30 on has    *)
(* the mean of the advance of the 30 daily entries that end at it.        *)
C7_Rolling ==
  HasKpis =>
    /\ Len(result.rolling) = Len(result.grouped_daily)
    /\ \A i \in 1..Len(result.rolling) :
         /\ result.rolling[i].Date = result.grouped_daily[i].Date
         /\ i < 30 => result.rolling[i].Avg = NoValue
         /\ i >= 30 =>
              /\ result.rolling[i].Avg.den > 0
              /\ result.rolling[i].Avg.num * 30 =
                   SeqSum(SubSeq(result.grouped_daily, i - 29, i), "Adv")
                     * result.rolling[i].Avg.den

(* more than 30 days, one of them with two records *)
C7_Witness ==
  /\ HasKpis
  /\ Len(result.rolling) > 30
  /\ Cardinality(Matching) > Len(result.rolling)
  /\ result.rolling[31].Avg # result.rolling[30].Avg
  /\ result.rolling[29].Avg = NoValue

(* C8: the daily series has one entry per distinct date of the filtered *)
(* set, in strictly ascending date order; an entry holds the sums of    *)
(* the measures over the filtered records of its date and their label.  *)
C8_DailySeries ==
  HasKpis =>
    LET gd == result.grouped_daily
    IN  /\ Len(gd) = Cardinality(MatchingDates)
        /\ \A i \in 1..Len(gd) :
             /\ gd[i].Date \in MatchingDates
             /\ i > 1 => DateLess(gd[i - 1].Date, gd[i].Date)
             /\ gd[i].THT = SumOver(OfDate(gd[i].Date), "THT")
             /\ gd[i].Ore = SumOver(OfDate(gd[i].Date), "Ore")
             /\ gd[i].Waste = SumOver(OfDate(gd[i].Date), "Waste")
             /\ gd[i].Adv = SumOver(OfDate(gd[i].Date), "Adv")
             /\ \A k \in OfDate(gd[i].Date) : gd[i].MonthLabel = df[k].MonthYear

(* records out of date order in df, two of them on one day *)
C8_Witness ==
  /\ HasKpis
  /\ \E i, j \in Matching : i < j /\ DateLess(df[j].Date, df[i].Date)
  /\ \E i, j \in Matching : i < j /\ df[j].Date = df[i].Date
  /\ Len(result.grouped_daily) > 2

(* C9: whatever calls were made, df and month_year_options are still what *)
(* the load made them, and the result shown is the callback's answer to   *)
(* the current selection on the loaded df.                                *)
C9_DatasetUnchanged ==
  Served =>
    /\ df = LoadDf(raw)
    /\ month_year_options = MonthYearOptions(LoadDf(raw))
    /\ result = update_dashboard(LoadDf(raw), selected_months, selected_materials)

(* at least three changes after the first call, the last answered "no *)
(* data", on a df of several months                                   *)
C9_Witness ==
  /\ Served
  /\ selected_months = {}
  /\ selected_materials = {}
  /\ result = NoData
  /\ Cardinality(DfLabels) > 1

(* C10 (as claimed): the entries of monthly_avg are in ascending order of *)
(* their month bucket.                                                    *)
C10_MonthlyAvgChronological ==
  HasKpis =>
    \A i, j \in 1..Len(result.monthly_avg) :
      i < j => DateLess(BucketOf(result.monthly_avg[i].MonthLabel),
                        BucketOf(result.monthly_avg[j].MonthLabel))

====
